---- MODULE Spec2Model ----
(***************************************************************************)
(* Model of nodes.py of the MimicMotion wrapper: the schedule              *)
(* interpolation routine, the model loader, the scheduler node, the        *)
(* sampler node, the latent decoder and the pose extraction node.          *)
(*                                                                         *)
(* Numbers.  Sigmas are fixed-point integers in units of 1/1000 (the       *)
(* finest step of the table at nodes.py:217).  Logarithms are fixed-point  *)
(* base-2 logarithms with FracBits fractional bits; np.log / np.exp are    *)
(* modelled by the piecewise-linear log2 / exp2 pair, rounded down as a    *)
(* float rounds.  Log-linear interpolation does not depend on the base of  *)
(* the logarithm, nor on the unit of the values.                           *)
(***************************************************************************)
EXTENDS Integers, Sequences, FiniteSets, TLC

\* ---------------------------------------------------------------- bounds
FracBits == 8     \* fractional bits of the fixed-point logarithm
MaxVal == 5       \* largest value of a schedule drawn for loglinear_interp
MaxLen == 3       \* longest schedule drawn for loglinear_interp
MaxNum == 4       \* largest num_steps drawn for loglinear_interp

LogScale == 2 ^ FracBits

\* ------------------------------------------------------- generic helpers
\* Python's None, where a scheduler object or scheduler_options is expected
None == "None"

\* Python's None, where a sigma sequence is expected
NoSigmas == << >>

Last(s) == s[Len(s)]

\* the sequences over S of length at most n
RECURSIVE SeqsUpTo(_, _)
SeqsUpTo(S, n) ==
    IF n = 0 THEN {<< >>}
    ELSE LET shorter == SeqsUpTo(S, n - 1)
         IN  shorter \cup {Append(q, x) : q \in {t \in shorter : Len(t) = n - 1}, x \in S}

\* s[::-1]
RECURSIVE Reverse(_)
Reverse(s) == IF s = << >> THEN << >> ELSE Append(Reverse(Tail(s)), Head(s))

\* floor(log2(v)) for v >= 1
RECURSIVE FloorLog2(_)
FloorLog2(v) == IF v < 2 THEN 0 ELSE 1 + FloorLog2(v \div 2)

\* np.log on one value, as a fixed-point logarithm
Log(v) ==
    LET e == FloorLog2(v)
    IN  e * LogScale + ((v - 2 ^ e) * LogScale) \div (2 ^ e)

\* np.exp on one value, inverse of Log up to rounding
Exp(y) ==
    LET e == y \div LogScale
        f == y % LogScale
    IN  ((2 ^ e) * (LogScale + f)) \div LogScale

\* np.interp(new_xs[j], xs, ys) with xs = linspace(0, 1, n) and
\* new_xs = linspace(0, 1, m); j is 0-based, ys is 1-based.
\* new_xs[j] = j/(m-1) lies in [xs[i], xs[i+1]) for i = j*(n-1) div (m-1).
interp(j, m, ys) ==
    LET n == Len(ys)
        D == IF m > 1 THEN m - 1 ELSE 1
        P == j * (n - 1)
        i == P \div D
        r == P % D
    IN  IF r = 0 THEN ys[i + 1]
        ELSE ys[i + 1] + ((ys[i + 2] - ys[i + 1]) * r) \div D

\* the body of loglinear_interp without the final reversal
loglinear_interp_noreverse(t_steps, num_steps) ==
    LET rev    == Reverse(t_steps)
        ys     == [k \in 1..Len(t_steps) |-> Log(rev[k])]
        new_ys == [j \in 1..num_steps |-> interp(j - 1, num_steps, ys)]
    IN  [j \in 1..num_steps |-> Exp(new_ys[j])]

loglinear_interp(t_steps, num_steps) ==
    LET rev         == Reverse(t_steps)
        ys          == [k \in 1..Len(t_steps) |-> Log(rev[k])]
        new_ys      == [j \in 1..num_steps |-> interp(j - 1, num_steps, ys)]
        interped_ys == Reverse([j \in 1..num_steps |-> Exp(new_ys[j])])
    IN  interped_ys

\* ------------------------------------------------------------ variables
VARIABLES
    pipeline,      \* mimic_pipeline['pipeline']: scheduler, unet and vae placement
    loaded,        \* what DownloadAndLoadMimicMotionModel.loadmodel built it with
    call,          \* the last MimicMotionSampler.process call and what it did
    dec,           \* the last MimicMotionDecode.process call and what it did
    fs,            \* the model files present under folder_paths.models_dir
    load,          \* the last loadmodel call and what it did
    poses,         \* the last MimicMotionGetPoses.process call and what it did
    interp_in,     \* arguments of a loglinear_interp call
    interp_out     \* its result, None before the call

vars == <<pipeline, loaded, call, dec, fs, load, poses, interp_in, interp_out>>

\* ------------------------------------------------ DiffusersScheduler node
SchedulerNames == {"EulerDiscreteScheduler", "AnimateLCM_SVD"}

\* the align-your-steps table, in 1/1000
AYS_sigmas == <<700000, 54500, 15886, 7977, 4248, 1789, 981, 403, 173, 34, 2>>

\* DiffusersScheduler.loadmodel: the scheduler_options it returns
DiffusersScheduler(scheduler, align_your_steps) ==
    [noise_scheduler |-> "node." \o scheduler,
     sigmas          |-> IF align_your_steps THEN AYS_sigmas ELSE NoSigmas]

SchedulerOptions ==
    {DiffusersScheduler(s, a) : s \in SchedulerNames, a \in BOOLEAN}

\* ------------------------------------------------- loader, scheduler part
\* the scheduler loadmodel hands to MimicMotionPipeline
LoaderScheduler(lcm) ==
    IF lcm THEN "loader.AnimateLCM_SVD"
           ELSE "loader.EulerDiscreteScheduler"

\* the pipeline object as loadmodel returns it: weights on the device
NewPipeline(lcm) ==
    [scheduler |-> LoaderScheduler(lcm), unet |-> "device", vae |-> "device"]

\* what the returned mimic_model was built with
Loaded(lcm, precision) ==
    [lcm |-> lcm, scheduler |-> LoaderScheduler(lcm), dtype |-> precision]

\* ----------------------------------- DownloadAndLoadMimicMotionModel.loadmodel
\* Files under models_dir:
\*   "mimic"          mimicmotion/MimicMotion-fp16.safetensors      (model_path)
\*   "svd"            the base SVD model under svd_path (unet, vae, image_encoder, ...)
\*   "svd/unet_lcm"   the AnimateLCM UNet under svd_path/unet_lcm
\*   "lcm/unet_lcm"   ...-xt-1-1-lcm/unet_lcm                        (svd_lcm_path)
Files == {"mimic", "svd", "svd/unet_lcm", "lcm/unet_lcm"}

AllFiles == {"mimic", "svd", "svd/unet_lcm"}

Precisions == {"fp32", "fp16", "bf16"}

\* os.path.exists on the three paths loadmodel checks
ModelPathExists(files) == "mimic" \in files
SvdLcmPathExists(files) == "lcm/unet_lcm" \in files
SvdPathExists(files) == "svd" \in files \/ "svd/unet_lcm" \in files

\* snapshot_download: the repositories and what each leaves under its local_dir
RepoMimic == "Kijai/MimicMotion_pruned"
RepoLcm == "Kijai/AnimateLCM-SVD-Comfy"
RepoSvd == "vdo/stable-video-diffusion-img2vid-xt-1-1"

Fetched(repo) ==
    IF repo = RepoMimic THEN {"mimic"}
    ELSE IF repo = RepoLcm THEN {"svd/unet_lcm"}
    ELSE {"svd"}

\* the downloads loadmodel makes, in order, from the files it finds
Downloads(files, lcm) ==
    (IF ~ModelPathExists(files) THEN <<RepoMimic>> ELSE << >>)
    \o (IF lcm /\ ~SvdLcmPathExists(files) THEN <<RepoLcm>>
        ELSE IF ~SvdPathExists(files) THEN <<RepoSvd>>
        ELSE << >>)

RECURSIVE AfterDownloads(_, _)
AfterDownloads(files, repos) ==
    IF repos = << >> THEN files
    ELSE AfterDownloads(files \cup Fetched(Head(repos)), Tail(repos))

\* what MimicMotionModel.__init__ and load_torch_file read
Reads(lcm) == {"mimic", "svd"} \cup (IF lcm THEN {"svd/unet_lcm"} ELSE {})

NoPipeline == [scheduler |-> None, unet |-> "none", vae |-> "none"]

NoLoaded == [lcm |-> FALSE, scheduler |-> None, dtype |-> "none"]

NoLoad ==
    [result |-> "none", lcm |-> FALSE, precision |-> "none", before |-> {},
     downloads |-> << >>, trace |-> << >>]

LoadModel(precision, lcm) ==
    LET repos == Downloads(fs, lcm)
        files == AfterDownloads(fs, repos)
        ok    == Reads(lcm) \subseteq files
    IN  /\ fs' = files
        /\ load' = [result |-> IF ok THEN "returned" ELSE "LoadError",
                    lcm |-> lcm, precision |-> precision, before |-> fs,
                    downloads |-> repos,
                    trace |-> repos \o <<"MimicMotionModel">>]
        /\ pipeline' = IF ok THEN NewPipeline(lcm) ELSE pipeline
        /\ loaded' = IF ok THEN Loaded(lcm, precision) ELSE loaded
        /\ UNCHANGED <<call, dec, poses, interp_in, interp_out>>

\* ---------------------------------------------- MimicMotionSampler.process
\* optional_scheduler=None
NoOverride == [noise_scheduler |-> None, sigmas |-> NoSigmas]

\* pipeline.scheduler after the if/else on optional_scheduler
ResolveScheduler(original_scheduler, optional_scheduler) ==
    IF optional_scheduler # NoOverride
    THEN optional_scheduler.noise_scheduler
    ELSE original_scheduler

SetLast(s, v) == [s EXCEPT ![Len(s)] = v]

\* s[-(k):]
LastK(s, k) == IF k >= Len(s) THEN s ELSE SubSeq(s, Len(s) - k + 1, Len(s))

\* a resolution that re-interpolates whatever the length of the table
ResolveSigmasAlwaysInterp(optional_scheduler, steps) ==
    IF optional_scheduler # NoOverride
    THEN LET sigmas == optional_scheduler.sigmas
         IN  IF sigmas # NoSigmas
             THEN SetLast(LastK(loglinear_interp(sigmas, steps + 1), steps + 1), 0)
             ELSE sigmas
    ELSE NoSigmas

\* the sigmas argument after the if/else on optional_scheduler
ResolveSigmas(optional_scheduler, steps) ==
    IF optional_scheduler # NoOverride
    THEN LET sigmas == optional_scheduler.sigmas
         IN  IF sigmas # NoSigmas /\ (steps + 1) # Len(sigmas)
             THEN SetLast(LastK(loglinear_interp(sigmas, steps + 1), steps + 1), 0)
             ELSE sigmas
    ELSE NoSigmas

\* a mis-stated precondition: strict comparison
PreconditionStrict(B, context_size) == B > context_size

\* assert B >= context_size
Precondition(B, context_size) == B >= context_size

\* an eviction that ignores the flag
EvictAlways(keep_model_loaded) ==
    <<"unet.to(offload)", "vae.to(offload)", "soft_empty_cache", "gc.collect">>

\* the block under "if not keep_model_loaded"
Evict(keep_model_loaded) ==
    IF ~keep_model_loaded
    THEN <<"unet.to(offload)", "vae.to(offload)", "soft_empty_cache", "gc.collect">>
    ELSE << >>

InSeq(x, s) == \E i \in 1..Len(s) : s[i] = x

NoCall ==
    [result |-> "none", optional_scheduler |-> NoOverride, steps |-> 0, B |-> 0,
     context_size |-> 0, keep_model_loaded |-> TRUE,
     invoked_with |-> None, sigmas |-> NoSigmas, trace |-> << >>]

\* One call of process.  pipeline_ok: whether the pipeline call returns or raises.
SamplerProcess(optional_scheduler, steps, B, context_size, keep_model_loaded, pipeline_ok) ==
    LET original_scheduler == pipeline.scheduler
        scheduler == ResolveScheduler(original_scheduler, optional_scheduler)
        sigmas    == ResolveSigmas(optional_scheduler, steps)
        pre       == Precondition(B, context_size)
        returned  == pre /\ pipeline_ok
        evict     == IF returned THEN Evict(keep_model_loaded) ELSE << >>
        trace     == <<"unload_all_models", "soft_empty_cache", "set_scheduler">>
                     \o (IF pre THEN <<"pipeline">> ELSE << >>)
                     \o evict
    IN  /\ pipeline' =
             [scheduler |-> scheduler,
              unet |-> IF InSeq("unet.to(offload)", evict) THEN "offload" ELSE pipeline.unet,
              vae  |-> IF InSeq("vae.to(offload)", evict) THEN "offload" ELSE pipeline.vae]
        /\ call' =
             [result |-> IF ~pre THEN "AssertionError"
                         ELSE IF ~pipeline_ok THEN "PipelineError" ELSE "returned",
              optional_scheduler |-> optional_scheduler,
              steps |-> steps, B |-> B, context_size |-> context_size,
              keep_model_loaded |-> keep_model_loaded,
              invoked_with |-> IF pre THEN scheduler ELSE None,
              sigmas |-> sigmas,
              trace |-> trace]
        /\ UNCHANGED <<loaded, dec, fs, load, poses, interp_in, interp_out>>

\* ----------------------------------------------- MimicMotionDecode.process
\* samples['samples'] for num_frames frames: the latent of each frame, the
\* first being the conditioning frame
Latents(num_frames) == [i \in 1..num_frames |-> i]

\* the pixel frame the VAE decodes one latent frame to
Pixel(z) == <<"px", z>>

Min(a, b) == IF a < b THEN a ELSE b

\* pipeline.decode_latents: decodes decode_chunk_size latents at a time and
\* concatenates the chunks
RECURSIVE decode_latents(_, _, _)
decode_latents(latents, num_frames, decode_chunk_size) ==
    IF latents = << >> THEN << >>
    ELSE LET k == Min(decode_chunk_size, Len(latents))
         IN  [i \in 1..k |-> Pixel(latents[i])]
             \o decode_latents(SubSeq(latents, k + 1, Len(latents)),
                               num_frames, decode_chunk_size)

DecodeCall(latents, num_frames, chunk) ==
    [latents |-> latents, num_frames |-> num_frames, decode_chunk_size |-> chunk]

\* a decode that gives up after the first failure
DecodeNoRetry(latents, num_frames, decode_chunk_size, first_ok, retry_ok) ==
    IF first_ok
    THEN [calls  |-> <<DecodeCall(latents, num_frames, decode_chunk_size)>>,
          raised |-> FALSE,
          frames |-> decode_latents(latents, num_frames, decode_chunk_size)]
    ELSE [calls  |-> <<DecodeCall(latents, num_frames, decode_chunk_size)>>,
          raised |-> TRUE,
          frames |-> << >>]

\* the try/except around decode_latents.  first_ok, retry_ok: whether the
\* first call and the retry return or raise.
DecodeWithFallback(latents, num_frames, decode_chunk_size, first_ok, retry_ok) ==
    IF first_ok
    THEN [calls  |-> <<DecodeCall(latents, num_frames, decode_chunk_size)>>,
          raised |-> FALSE,
          frames |-> decode_latents(latents, num_frames, decode_chunk_size)]
    ELSE [calls  |-> <<DecodeCall(latents, num_frames, decode_chunk_size),
                       DecodeCall(latents, num_frames, 1)>>,
          raised |-> ~retry_ok,
          frames |-> IF retry_ok THEN decode_latents(latents, num_frames, 1)
                                 ELSE << >>]

\* a slice that keeps the conditioning frame
KeepAll(frames) == frames

\* frames.squeeze(1)[1:]
DropFirst(frames) == Tail(frames)

NoDecode ==
    [result |-> "none", latents |-> << >>, decode_chunk_size |-> 0,
     calls |-> << >>, outcomes |-> << >>, images |-> << >>]

DecodeProcess(samples, decode_chunk_size, first_ok, retry_ok) ==
    LET num_frames == Len(samples)
        got == DecodeWithFallback(samples, num_frames, decode_chunk_size,
                                  first_ok, retry_ok)
        outcomes == IF first_ok THEN <<"ok">>
                    ELSE SubSeq(<<"raise", IF retry_ok THEN "ok" ELSE "raise">>,
                                1, Len(got.calls))
    IN  /\ dec' = [result |-> IF got.raised THEN "raised" ELSE "returned",
                   latents |-> samples,
                   decode_chunk_size |-> decode_chunk_size,
                   calls |-> got.calls,
                   outcomes |-> outcomes,
                   images |-> IF got.raised THEN << >> ELSE DropFirst(got.frames)]
        /\ UNCHANGED <<pipeline, loaded, call, fs, load, poses, interp_in, interp_out>>

\* ------------------------------------------- MimicMotionGetPoses.process
BodyKeypoints == 18

\* One detected pose: the frame it came from (0 is the reference image), the
\* rows of bodies.candidate, and for each keypoint group how many times
\* "* a + b" has been applied to it.
Detect(frame, rows) ==
    [frame |-> frame, rows |-> rows, bodies |-> 0, hands |-> 0, faces |-> 0]

NotDrawn == -1

\* draw_pose: one image per pose, showing the groups the toggles include
draw_pose(pose, include_body, include_hand, include_face) ==
    [frame  |-> pose.frame,
     bodies |-> IF include_body THEN pose.bodies ELSE NotDrawn,
     hands  |-> IF include_hand THEN pose.hands ELSE NotDrawn,
     faces  |-> IF include_face THEN pose.faces ELSE NotDrawn]

\* the frames np.stack gathers for the fit
RECURSIVE FitFrames(_)
FitFrames(detected) ==
    IF detected = << >> THEN << >>
    ELSE (IF Head(detected).rows = BodyKeypoints THEN <<Head(detected).frame>> ELSE << >>)
         \o FitFrames(Tail(detected))

\* the body of the "pose rescale" loop for one pose
Rescale(detected_pose, include_body, include_hand, include_face) ==
    [detected_pose EXCEPT
        !.bodies = IF include_body THEN @ + 1 ELSE @,
        !.faces  = IF include_hand THEN @ + 1 ELSE @,
        !.hands  = IF include_face THEN @ + 1 ELSE @]

NoPoses ==
    [result |-> "none", rows |-> << >>, ref_keypoints |-> 0,
     include_body |-> FALSE, include_hand |-> FALSE, include_face |-> FALSE,
     fit_frames |-> << >>, poses_with_ref |-> << >>, pose_images |-> << >>]

\* rows: bodies.candidate rows the detector finds in each pose image;
\* ref_keypoints: how many of the ten reference keypoints score above 0.3.
\* np.stack raises on an empty list, np.polyfit on an empty vector.
GetPoses(rows, ref_keypoints, include_body, include_hand, include_face) ==
    LET ref_pose == Detect(0, BodyKeypoints)
        detected_poses_np_list == [i \in 1..Len(rows) |-> Detect(i, rows[i])]
        fit_frames == FitFrames(detected_poses_np_list)
        stack_ok == fit_frames # << >>
        polyfit_ok == stack_ok /\ ref_keypoints > 0
        output_pose ==
            [i \in 1..Len(rows) |->
                draw_pose(Rescale(detected_poses_np_list[i],
                                  include_body, include_hand, include_face),
                          include_body, include_hand, include_face)]
        ref_pose_img == draw_pose(ref_pose, include_body, include_hand, include_face)
        output_tensor == <<ref_pose_img>> \o output_pose
    IN  /\ poses' =
             [result |-> IF ~stack_ok THEN "ValueError"
                         ELSE IF ~polyfit_ok THEN "TypeError" ELSE "returned",
              rows |-> rows, ref_keypoints |-> ref_keypoints,
              include_body |-> include_body, include_hand |-> include_hand,
              include_face |-> include_face,
              fit_frames |-> fit_frames,
              poses_with_ref |-> IF polyfit_ok THEN output_tensor ELSE << >>,
              pose_images |-> IF polyfit_ok THEN Tail(output_tensor) ELSE << >>]
        /\ UNCHANGED <<pipeline, loaded, call, dec, fs, load, interp_in, interp_out>>

\* ------------------------------------------------ sampler specification
\* bounds of the sampler's inputs
MaxSteps == 11     \* largest step count drawn where the sigma table matters
MaxStepsCall == 2  \* largest step count drawn where the other inputs vary
MaxFrames == 2     \* largest pose count B and context_size drawn
StepsMin == 1
ContextMin == 1

NoInterp == [t_steps |-> << >>, num_steps |-> 0]

InitSampler ==
    /\ \E lcm \in BOOLEAN :
          /\ loaded = Loaded(lcm, "fp16")
          /\ pipeline = NewPipeline(lcm)
    /\ fs = AllFiles
    /\ load = NoLoad
    /\ poses = NoPoses
    /\ call = NoCall
    /\ dec = NoDecode
    /\ interp_in = NoInterp
    /\ interp_out = NoSigmas

NextSampler ==
    \E optional_scheduler \in SchedulerOptions \cup {NoOverride},
       steps \in StepsMin..MaxStepsCall,
       B \in 1..MaxFrames,
       context_size \in ContextMin..MaxFrames,
       keep_model_loaded \in BOOLEAN,
       pipeline_ok \in BOOLEAN :
        SamplerProcess(optional_scheduler, steps, B, context_size,
                       keep_model_loaded, pipeline_ok)

SpecSampler == InitSampler /\ [][NextSampler]_vars

\* the same calls over the whole range of step counts, with a context_size
\* that every pose sequence satisfies and a pipeline that returns
NextSigmas ==
    \E optional_scheduler \in SchedulerOptions \cup {NoOverride},
       steps \in StepsMin..MaxSteps,
       B \in 1..MaxFrames,
       keep_model_loaded \in BOOLEAN :
        SamplerProcess(optional_scheduler, steps, B, ContextMin,
                       keep_model_loaded, TRUE)

SpecSigmas == InitSampler /\ [][NextSigmas]_vars

\* ------------------------------------------------- decode specification
MaxLatents == 8     \* most latent frames in a container
MaxChunk == 5       \* largest decode_chunk_size drawn
ChunkMin == 1

InitDecode ==
    /\ \E lcm \in BOOLEAN :
          /\ loaded = Loaded(lcm, "fp16")
          /\ pipeline = NewPipeline(lcm)
    /\ fs = AllFiles
    /\ load = NoLoad
    /\ poses = NoPoses
    /\ call = NoCall
    /\ dec = NoDecode
    /\ interp_in = NoInterp
    /\ interp_out = NoSigmas

NextDecode ==
    \E num_frames \in 1..MaxLatents,
       decode_chunk_size \in ChunkMin..MaxChunk,
       first_ok \in BOOLEAN,
       retry_ok \in BOOLEAN :
        DecodeProcess(Latents(num_frames), decode_chunk_size, first_ok, retry_ok)

SpecDecode == InitDecode /\ [][NextDecode]_vars

\* ------------------------------------------------- loader specification
InitLoader ==
    /\ fs \in SUBSET Files
    /\ load = NoLoad
    /\ pipeline = NoPipeline
    /\ loaded = NoLoaded
    /\ poses = NoPoses
    /\ call = NoCall
    /\ dec = NoDecode
    /\ interp_in = NoInterp
    /\ interp_out = NoSigmas

NextLoader ==
    \E precision \in Precisions, lcm \in BOOLEAN : LoadModel(precision, lcm)

SpecLoader == InitLoader /\ [][NextLoader]_vars

\* -------------------------------------------------- poses specification
MaxPoseFrames == 2     \* most pose images in a call
MaxPersons == 2        \* most bodies the detector finds in one image
MaxRefKeypoints == 1   \* most confident reference keypoints drawn

InitPoses ==
    /\ fs = AllFiles
    /\ load = NoLoad
    /\ pipeline = NoPipeline
    /\ loaded = NoLoaded
    /\ poses = NoPoses
    /\ call = NoCall
    /\ dec = NoDecode
    /\ interp_in = NoInterp
    /\ interp_out = NoSigmas

NextPoses ==
    \E rows \in SeqsUpTo({BodyKeypoints * k : k \in 0..MaxPersons}, MaxPoseFrames) \ {<< >>},
       ref_keypoints \in 0..MaxRefKeypoints,
       include_body \in BOOLEAN,
       include_hand \in BOOLEAN,
       include_face \in BOOLEAN :
        GetPoses(rows, ref_keypoints, include_body, include_hand, include_face)

SpecPoses == InitPoses /\ [][NextPoses]_vars

\* ------------------------------------------ interpolation specification
InitInterp ==
    /\ loaded = Loaded(FALSE, "fp16")
    /\ pipeline = NewPipeline(FALSE)
    /\ fs = AllFiles
    /\ load = NoLoad
    /\ poses = NoPoses
    /\ call = NoCall
    /\ dec = NoDecode
    /\ \E t_steps \in (SeqsUpTo(1..MaxVal, MaxLen) \ {<< >>}) \cup {AYS_sigmas},
          num_steps \in 1..MaxNum :
            interp_in = [t_steps |-> t_steps, num_steps |-> num_steps]
    /\ interp_out = NoSigmas

Interpolate ==
    /\ interp_out = NoSigmas
    /\ interp_out' = loglinear_interp(interp_in.t_steps, interp_in.num_steps)
    /\ UNCHANGED <<pipeline, loaded, call, dec, fs, load, poses, interp_in>>

SpecInterp == InitInterp /\ [][Interpolate]_vars

\* ---------------------------------------------------------------- claims
Called == call.result # "none"

Invoked == InSeq("pipeline", call.trace)

C2_FinalSigmaZero ==
    (Invoked /\ call.optional_scheduler # NoOverride
             /\ call.optional_scheduler.sigmas # NoSigmas)
        => call.sigmas # NoSigmas /\ Last(call.sigmas) = 0

\* C5 (as claimed): the scheduler in the pipeline when it is invoked is the
\* override's noise scheduler if one is given, else the scheduler the loader
\* built the pipeline with, whatever calls came before.
C5_SchedulerAtInvocation ==
    Invoked =>
        call.invoked_with =
            IF call.optional_scheduler # NoOverride
            THEN call.optional_scheduler.noise_scheduler
            ELSE loaded.scheduler

Moves(trace) == InSeq("unet.to(offload)", trace) \/ InSeq("vae.to(offload)", trace)

EvictionTail ==
    <<"pipeline", "unet.to(offload)", "vae.to(offload)", "soft_empty_cache", "gc.collect">>

Decoded == dec.result # "none"

\* C3: the first decode_latents call uses the requested chunk size; a second
\* call is made exactly when the first raised, with chunk size 1 on the same
\* latents; there are never more than two calls; if the retry raises too the
\* decode call raises and returns no frames.
C3_RetryOnceAtChunkOne ==
    Decoded =>
        /\ Len(dec.calls) \in {1, 2}
        /\ dec.calls[1] = DecodeCall(dec.latents, Len(dec.latents), dec.decode_chunk_size)
        /\ (Len(dec.calls) = 2) <=> (dec.outcomes[1] = "raise")
        /\ Len(dec.calls) = 2
             => dec.calls[2] = DecodeCall(dec.latents, Len(dec.latents), 1)
        /\ (dec.outcomes[Len(dec.calls)] = "raise")
             <=> (dec.result = "raised")
        /\ dec.result = "raised" => dec.images = << >>

C3_Witness ==
    /\ dec.result = "returned"
    /\ dec.decode_chunk_size > 1
    /\ Len(dec.calls) = 2
    /\ dec.calls[2].decode_chunk_size = 1

\* C4: whenever the decode returns, from N latent frames it yields the
\* decoded frames 2..N in order (N-1 frames, the first one dropped), on the
\* requested chunk size and on the chunk-size-1 fallback alike.
C4_FirstFrameDropped ==
    dec.result = "returned" =>
        LET N == Len(dec.latents)
        IN  /\ Len(dec.images) = N - 1
            /\ \A i \in 1..(N - 1) : dec.images[i] = Pixel(dec.latents[i + 1])

C4_Witness ==
    /\ dec.result = "returned"
    /\ Len(dec.calls) = 2
    /\ Len(dec.latents) = MaxLatents
    /\ Len(dec.images) = MaxLatents - 1
    /\ dec.images[1] = Pixel(2)

StrictlyDecreasing(s) == \A i \in 1..(Len(s) - 1) : s[i] > s[i + 1]

NonIncreasing(s) == \A i \in 1..(Len(s) - 1) : s[i] >= s[i + 1]

\* equal up to the rounding of the fixed-point logarithm
Close(a, b) == (a - b) * LogScale <= b /\ (b - a) * LogScale <= b

InterpCase ==
    /\ interp_out # NoSigmas
    /\ Len(interp_in.t_steps) >= 2
    /\ interp_in.num_steps >= 2
    /\ StrictlyDecreasing(interp_in.t_steps)

\* C10: for a strictly decreasing positive schedule of length >= 2 and
\* num_steps >= 2, loglinear_interp returns num_steps values, non-increasing,
\* whose first and last values are those of the input up to rounding.
C10_InterpShape ==
    InterpCase =>
        /\ Len(interp_out) = interp_in.num_steps
        /\ NonIncreasing(interp_out)
        /\ Close(interp_out[1], interp_in.t_steps[1])
        /\ Close(Last(interp_out), Last(interp_in.t_steps))

C10_Witness ==
    /\ InterpCase
    /\ Len(interp_in.t_steps) = 3
    /\ interp_in.num_steps = 4
    /\ interp_out[1] > interp_out[4]

LoadCalled == load.result # "none"

\* the repository that holds each file the load step reads
RepoOf(file) ==
    IF file = "mimic" THEN RepoMimic
    ELSE IF file = "svd" THEN RepoSvd
    ELSE RepoLcm

\* the path loadmodel checks before it downloads each repository
CheckedPathExists(repo, files) ==
    IF repo = RepoMimic THEN ModelPathExists(files)
    ELSE IF repo = RepoSvd THEN SvdPathExists(files)
    ELSE SvdLcmPathExists(files)

\* C7 (as claimed): for every lcm flag and every set of files present, each
\* model the load step reads that is absent is downloaded before the models
\* are constructed, and nothing is downloaded whose checked path exists.
C7_AbsentModelsFetched ==
    LoadCalled =>
        /\ \A file \in Reads(load.lcm) :
              file \notin load.before => InSeq(RepoOf(file), load.downloads)
        /\ Last(load.trace) = "MimicMotionModel"
        /\ \A repo \in {RepoMimic, RepoSvd, RepoLcm} :
              CheckedPathExists(repo, load.before) => ~InSeq(repo, load.downloads)

PosesCalled == poses.result # "none"

\* C8 (as claimed): for every mix of frames with and without 18 body
\* keypoints, the first output is the reference pose image followed by one
\* image per input frame in input order, and the second output is those
\* images without the reference.
C8_AllFramesRendered ==
    (PosesCalled /\ poses.ref_keypoints > 0) =>
        LET N == Len(poses.rows)
        IN  /\ poses.result = "returned"
            /\ Len(poses.poses_with_ref) = N + 1
            /\ poses.poses_with_ref[1].frame = 0
            /\ \A i \in 1..N : poses.poses_with_ref[i + 1].frame = i
            /\ poses.pose_images = Tail(poses.poses_with_ref)

\* C9 (as claimed): in every output frame, each keypoint group that is drawn
\* has had the affine transform applied exactly once.
C9_DrawnGroupsRescaledOnce ==
    poses.result = "returned" =>
        \A i \in 1..Len(poses.pose_images) :
            LET im == poses.pose_images[i]
            IN  /\ poses.include_body => im.bodies = 1
                /\ poses.include_hand => im.hands = 1
                /\ poses.include_face => im.faces = 1

\* whether the override of the last call carries a fixed sigma table
HasTable ==
    /\ call.optional_scheduler # NoOverride
    /\ call.optional_scheduler.sigmas # NoSigmas

\* C11 (as claimed): the sigmas argument is None exactly when there is no
\* override or the override has no table; otherwise it has steps + 1 values,
\* the table itself when steps + 1 is its length and the result of
\* loglinear_interp otherwise.
C11_SigmasAsInterpolated ==
    Invoked =>
        /\ (call.sigmas = NoSigmas) <=> ~HasTable
        /\ HasTable =>
             LET table == call.optional_scheduler.sigmas
             IN  /\ Len(call.sigmas) = call.steps + 1
                 /\ call.sigmas =
                      IF call.steps + 1 = Len(table) THEN table
                      ELSE loglinear_interp(table, call.steps + 1)

\* C11 (amended): the sigmas argument is None exactly when there is no
\* override or the override has no table; otherwise it has steps + 1 values,
\* the table itself when steps + 1 is its length and otherwise the result of
\* loglinear_interp with its last value replaced by zero.
C11_SigmaArgument ==
    Invoked =>
        /\ (call.sigmas = NoSigmas) <=> ~HasTable
        /\ HasTable =>
             LET table  == call.optional_scheduler.sigmas
                 interped == loglinear_interp(table, call.steps + 1)
             IN  /\ Len(call.sigmas) = call.steps + 1
                 /\ call.steps + 1 = Len(table) => call.sigmas = table
                 /\ call.steps + 1 # Len(table) =>
                      /\ Last(call.sigmas) = 0
                      /\ \A i \in 1..call.steps : call.sigmas[i] = interped[i]

C11_Witness ==
    /\ Invoked
    /\ HasTable
    /\ call.steps + 1 > Len(call.optional_scheduler.sigmas)
    /\ Len(call.sigmas) = call.steps + 1
    /\ Last(call.sigmas) = 0
    /\ call.sigmas[1] > call.sigmas[2]

====
